---- MODULE Spec2Model ----
(***************************************************************************)
(* A model of ha-shelly-export.py: the command-line entry point main, the  *)
(* fetch-and-filter function get_shelly_devices and the CSV writer         *)
(* export_to_csv.  Strings are sequences of one-character strings, so that *)
(* startswith, lower, the substring test and the CSV quoting are computed  *)
(* as Python computes them.                                                *)
(***************************************************************************)
EXTENDS Integers, Sequences, FiniteSets, TLC

\* ---------------------------------------------------------------- bounds

\* Longest JSON array the states endpoint answers with.
MaxLen == 3

\* ------------------------------------------------------- program constants

HTTP_OK == 200
REQUEST_TIMEOUT == 30

\* ---------------------------------------------------------------- strings

UpperAlpha ==
  <<"A","B","C","D","E","F","G","H","I","J","K","L","M",
    "N","O","P","Q","R","S","T","U","V","W","X","Y","Z">>

LowerAlpha ==
  <<"a","b","c","d","e","f","g","h","i","j","k","l","m",
    "n","o","p","q","r","s","t","u","v","w","x","y","z">>

lower_char(c) ==
  IF \E k \in 1..26 : UpperAlpha[k] = c
  THEN LowerAlpha[CHOOSE k \in 1..26 : UpperAlpha[k] = c]
  ELSE c

\* str.lower()
lower(s) == [k \in 1..Len(s) |-> lower_char(s[k])]

\* str.startswith(p)
startswith(s, p) == Len(s) >= Len(p) /\ SubSeq(s, 1, Len(p)) = p

\* str.endswith(p)
endswith(s, p) ==
  Len(s) >= Len(p) /\ SubSeq(s, Len(s) - Len(p) + 1, Len(s)) = p

\* sub in s
contains(s, sub) ==
  \E k \in 0..(Len(s) - Len(sub)) : SubSeq(s, k + 1, k + Len(sub)) = sub

S_switch_dot   == <<"s","w","i","t","c","h",".">>
S_cover_dot    == <<"c","o","v","e","r",".">>
S_shelly       == <<"s","h","e","l","l","y">>
S_availability == <<"a","v","a","i","l","a","b","i","l","i","t","y">>
S_connectivity == <<"c","o","n","n","e","c","t","i","v","i","t","y">>
S_slash        == <<"/">>
S_api_config   == <<"/","a","p","i","/","c","o","n","f","i","g">>
S_api_states   == <<"/","a","p","i","/","s","t","a","t","e","s">>

\* ------------------------------------------------------------ JSON values

JStr(s)  == [t |-> "str", v |-> s]
JNumber  == [t |-> "number", v |-> <<>>]
JMissing == [t |-> "missing", v |-> <<>>]

\* An attributes value: a JSON object with an optional friendly_name, or a
\* value that is no object, or no attributes key at all.
AttrObject(fn) == [t |-> "object", friendly_name |-> fn]
AttrNull       == [t |-> "null", friendly_name |-> JMissing]
AttrMissing    == [t |-> "missing", friendly_name |-> JMissing]

\* An element of the states array.
Entity(eid, attrs) == [t |-> "object", entity_id |-> eid, attributes |-> attrs]
NonObject          == [t |-> "number", entity_id |-> JMissing, attributes |-> AttrMissing]

\* ------------------------------------------------------- Python's None/or

None      == [some |-> FALSE, v |-> <<>>]
Some(s)   == [some |-> TRUE, v |-> s]

\* bool(x) of an optional string: None and "" are false.
Truthy(x) == x.some /\ x.v # <<>>

\* faulty variant: the second operand wins
PyOrSecondFirst(a, b) == IF Truthy(b) THEN b ELSE a

\* a or b
PyOr(a, b) == IF Truthy(a) THEN a ELSE b

\* ----------------------------------------------------------- sample data

U_FLAG == <<"h","/">>
U_ENV  == <<"e">>
T_FLAG == <<"t">>
T_ENV  == <<"v">>
OUT_PATH == <<"o",".","c","s","v">>

N_kitchen == <<"K","i","t","c","h","e","n">>
N_garage  == <<"G","a","r","a","g","e"," ","D","o","o","r">>
N_quoted  == <<"L",",","\"">>

Id_shelly_1   == S_switch_dot \o S_shelly \o <<"_","1">>
Id_SHELLY_2   == S_switch_dot \o <<"S","H","E","L","L","Y","_","2">>
Id_lamp       == S_switch_dot \o <<"l","a","m","p">>
Id_garage     == S_cover_dot \o <<"g","a","r","a","g","e">>
Id_cover_conn == S_cover_dot \o S_shelly \o <<"_","C","o","n","n","e","c","t","i","v","i","t","y">>
Id_sw_avail   == S_switch_dot \o S_shelly \o <<"_">> \o S_availability
Id_light      == <<"l","i","g","h","t",".">> \o S_shelly \o <<"_","3">>
Id_Switch     == <<"S","w","i","t","c","h",".">> \o S_shelly \o <<"_","4">>

\* The elements a states array is built from: well-formed entities of every
\* class the filter tells apart, and the malformed ones.
WellFormed ==
  { Entity(JStr(Id_shelly_1), AttrObject(JStr(N_kitchen))),
    Entity(JStr(Id_shelly_1), AttrObject(JStr(N_quoted))),
    Entity(JStr(Id_shelly_1), AttrMissing),
    Entity(JStr(Id_garage), AttrObject(JStr(N_garage))),
    Entity(JStr(Id_garage), AttrObject(JMissing)),
    Entity(JStr(Id_lamp), AttrObject(JStr(N_kitchen))),
    Entity(JStr(Id_SHELLY_2), AttrObject(JMissing)),
    Entity(JStr(Id_cover_conn), AttrObject(JStr(N_kitchen))),
    Entity(JStr(Id_sw_avail), AttrObject(JMissing)),
    Entity(JStr(Id_light), AttrObject(JStr(N_kitchen))),
    Entity(JStr(Id_Switch), AttrObject(JMissing)),
    Entity(JMissing, AttrObject(JStr(N_kitchen))) }

Malformed ==
  { NonObject,
    Entity(JNumber, AttrObject(JMissing)),
    Entity(JStr(Id_garage), AttrNull) }

Elements == WellFormed \cup Malformed

Arrays == UNION { [1..n -> Elements] : n \in 0..MaxLen }

\* A response body of the states endpoint.
Bodies ==
  { [kind |-> "invalid_json", items |-> <<>>],
    [kind |-> "null", items |-> <<>>] }
  \cup { [kind |-> "array", items |-> a] : a \in Arrays }

Statuses   == {200, 401, 500}
Exceptions == {"ConnectionError", "Timeout"}

Responses ==
  { [kind |-> "status", code |-> c, exc |-> "none"] : c \in Statuses }
  \cup { [kind |-> "exc", code |-> 0, exc |-> e] : e \in Exceptions }

\* ------------------------------------------------------------------ state

VARIABLES
  pc,             \* the statement the run is at
  caller,         \* "main", or the function called on its own
  args,           \* argparse's result: url, token, output
  environ,        \* HA_URL and HA_TOKEN after load_dotenv
  ha_url,         \* main's ha_url / get_shelly_devices' argument
  token,          \* main's token / get_shelly_devices' argument
  gsd_url,        \* get_shelly_devices' ha_url after the slash is stripped
  headers,        \* the bearer token of the Authorization header
  requests,       \* every HTTP request issued so far, in order
  responses,      \* what each of them was answered with
  all_entities,   \* the parsed states array
  idx,            \* position of the for loop in all_entities (1-based)
  shelly_devices, \* the filter's output so far
  seen_ids,       \* identifiers already appended
  gsd_result,     \* what get_shelly_devices returned
  gsd_exc,        \* the except clause that ran in get_shelly_devices
  entities,       \* main's entities / export_to_csv's argument
  output_arg,     \* args.output / export_to_csv's output_file argument
  output_file,    \* export_to_csv's output_file once resolved
  row,            \* rows of entities written so far
  fs,             \* the file at the output path
  opens,          \* how often a file was opened for writing
  exp_result,     \* what export_to_csv returned
  exp_exc,        \* the except clause that ran in export_to_csv
  previews,       \* how often main opened the file for its preview
  outcome,        \* how the run ended
  exit_code       \* the process's exit status, -1 while it runs

gsd_locals == <<gsd_url, headers, all_entities, idx, shelly_devices, seen_ids>>

main_inputs == <<caller, args, environ, ha_url, token>>

http_log == <<requests, responses>>

exp_state == <<entities, output_arg, output_file, row, fs, opens, exp_result,
               exp_exc, previews, outcome, exit_code>>

vars == <<pc, caller, args, environ, ha_url, token, gsd_url, headers,
          requests, responses, all_entities, idx, shelly_devices, seen_ids,
          gsd_result, gsd_exc, entities, output_arg, output_file, row, fs,
          opens, exp_result, exp_exc, previews, outcome, exit_code>>

\* --------------------------------------------------- get_shelly_devices

\* dict.get(key, default) on a JSON member that may be missing
DictGet(member, default) == IF member.t = "missing" THEN default ELSE member

\* faulty variant: every switch passes, marker or not
is_switch_any(entity_id) == startswith(entity_id, S_switch_dot)

is_switch(entity_id) ==
  startswith(entity_id, S_switch_dot) /\ contains(lower(entity_id), S_shelly)

is_cover(entity_id) == startswith(entity_id, S_cover_dot)

is_availability(entity_id) ==
  \/ contains(lower(entity_id), S_availability)
  \/ contains(lower(entity_id), S_connectivity)

\* the condition of line 87
Selected(entity_id) ==
  (is_switch(entity_id) \/ is_cover(entity_id)) /\ ~is_availability(entity_id)

\* the friendly_name of line 79
FriendlyName(entity_id, attributes) == DictGet(attributes.friendly_name, entity_id)

\* faulty variant: the new entry is put in front
PrependDevice(devices, entity_id, friendly_name) ==
  <<[id |-> entity_id.v, name |-> friendly_name]>> \o devices

\* shelly_devices.append({...})
AppendDevice(devices, entity_id, friendly_name) ==
  Append(devices, [id |-> entity_id.v, name |-> friendly_name])

\* faulty variant: no duplicate test
NeverSeen(entity_id, seen) == TRUE

\* the duplicate test of line 89
NotSeen(entity_id, seen) == entity_id.v \notin seen

\* A statement of the loop body raises: AttributeError on a value that has
\* no get (77, 79) or no startswith (83).
Raises(entity) ==
  \/ entity.t # "object"
  \/ DictGet(entity.attributes, AttrObject(JMissing)).t # "object"
  \/ DictGet(entity.entity_id, JStr(<<>>)).t # "str"

StripSlash(url) ==
  IF endswith(url, S_slash) THEN SubSeq(url, 1, Len(url) - 1) ELSE url

NoLocals ==
  /\ gsd_url' = <<>>
  /\ headers' = <<>>
  /\ all_entities' = <<>>
  /\ idx' = 0
  /\ shelly_devices' = <<>>
  /\ seen_ids' = {}

\* lines 36-47
GsdEnter ==
  /\ pc = "gsd_enter"
  /\ headers' = token.v
  /\ gsd_url' = StripSlash(ha_url.v)
  /\ pc' = "config_request"
  /\ UNCHANGED <<main_inputs, http_log, all_entities, idx, shelly_devices,
                 seen_ids, gsd_result, gsd_exc, exp_state>>

\* faulty variant: only a server error stops the call
StatusNotServerError(r) == r.code < 500

\* status_code == 200 (lines 52, 64)
StatusOk(r) == r.code = HTTP_OK

Request(url) == [url |-> url, auth |-> headers, timeout |-> REQUEST_TIMEOUT]

\* faulty variant: a failure returns what was filtered so far
GsdFailPartial(exc) ==
  /\ gsd_exc' = exc
  /\ gsd_result' = shelly_devices
  /\ pc' = "gsd_return"

\* the return [] of an except clause, or of a status check
GsdFail(exc) ==
  /\ gsd_exc' = exc
  /\ gsd_result' = <<>>
  /\ pc' = "gsd_return"

\* lines 51-57
ConfigRequest ==
  /\ pc = "config_request"
  /\ requests' = Append(requests, Request(gsd_url \o S_api_config))
  /\ \E r \in Responses :
       /\ responses' = Append(responses, r)
       /\ IF r.kind = "exc" THEN GsdFail("RequestException")
          ELSE IF ~StatusOk(r) THEN GsdFail("none")
          ELSE /\ pc' = "states_request"
               /\ UNCHANGED <<gsd_result, gsd_exc>>
  /\ UNCHANGED <<main_inputs, gsd_locals, exp_state>>

\* lines 60-74
StatesRequest ==
  /\ pc = "states_request"
  /\ requests' = Append(requests, Request(gsd_url \o S_api_states))
  /\ \E r \in Responses :
       /\ responses' = Append(responses, r)
       /\ IF r.kind = "exc"
          THEN GsdFail("RequestException") /\ UNCHANGED <<all_entities, idx>>
          ELSE IF ~StatusOk(r)
          THEN GsdFail("none") /\ UNCHANGED <<all_entities, idx>>
          ELSE \E body \in Bodies :
                 CASE body.kind = "invalid_json" ->
                        \* requests' JSONDecodeError is a ValueError and, from
                        \* requests 2.27 on, a RequestException too
                        /\ \E e \in {"RequestException", "ValueError"} : GsdFail(e)
                        /\ UNCHANGED <<all_entities, idx>>
                   [] body.kind = "null" ->
                        \* len(None) raises TypeError
                        /\ GsdFail("Exception")
                        /\ UNCHANGED <<all_entities, idx>>
                   [] OTHER ->
                        /\ all_entities' = body.items
                        /\ idx' = 1
                        /\ pc' = "filter"
                        /\ UNCHANGED <<gsd_result, gsd_exc>>
  /\ UNCHANGED <<main_inputs, gsd_url, headers, shelly_devices, seen_ids,
                 exp_state>>

\* lines 76-96: one iteration of the for loop
FilterStep ==
  /\ pc = "filter"
  /\ idx <= Len(all_entities)
  /\ LET entity        == all_entities[idx]
         entity_id     == DictGet(entity.entity_id, JStr(<<>>))
         attributes    == DictGet(entity.attributes, AttrObject(JMissing))
         friendly_name == FriendlyName(entity_id, attributes)
     IN IF Raises(entity)
        THEN /\ GsdFail("Exception")
             /\ UNCHANGED <<idx, shelly_devices, seen_ids>>
        ELSE /\ idx' = idx + 1
             /\ IF Selected(entity_id.v) /\ NotSeen(entity_id, seen_ids)
                THEN /\ seen_ids' = seen_ids \cup {entity_id.v}
                     /\ shelly_devices' =
                          AppendDevice(shelly_devices, entity_id, friendly_name)
                ELSE UNCHANGED <<shelly_devices, seen_ids>>
             /\ UNCHANGED <<pc, gsd_result, gsd_exc>>
  /\ UNCHANGED <<main_inputs, gsd_url, headers, http_log, all_entities,
                 exp_state>>

\* lines 98-99
FilterDone ==
  /\ pc = "filter"
  /\ idx > Len(all_entities)
  /\ gsd_result' = shelly_devices
  /\ pc' = "gsd_return"
  /\ UNCHANGED <<main_inputs, gsd_locals, http_log, gsd_exc, exp_state>>

\* the function's frame is dropped; main goes on at line 186
GsdReturn ==
  /\ pc = "gsd_return"
  /\ NoLocals
  /\ entities' = gsd_result
  /\ pc' = "main_check_entities"
  /\ UNCHANGED <<main_inputs, http_log, gsd_result, gsd_exc, output_arg,
                 output_file, row, fs, opens, exp_result, exp_exc, previews,
                 outcome, exit_code>>

\* -------------------------------------------------------- export_to_csv

Digits == <<"0","1","2","3","4","5","6","7","8","9">>

Digit(n) == Digits[n + 1]

Pad2(n) == <<Digit(n \div 10), Digit(n % 10)>>

Pad4(n) ==
  <<Digit(n \div 1000), Digit((n \div 100) % 10), Digit((n \div 10) % 10),
    Digit(n % 10)>>

\* datetime.strftime("%Y%m%d_%H%M%S")
strftime(dt) ==
  Pad4(dt.year) \o Pad2(dt.month) \o Pad2(dt.day) \o <<"_">>
  \o Pad2(dt.hour) \o Pad2(dt.minute) \o Pad2(dt.second)

S_shelly_devices_ == S_shelly \o <<"_","d","e","v","i","c","e","s","_">>
S_dot_csv         == <<".","c","s","v">>

\* line 121
GeneratedName(dt) == S_shelly_devices_ \o strftime(dt) \o S_dot_csv

\* what datetime.now() may answer
Clock ==
  { [year |-> 2026, month |-> 1, day |-> 5, hour |-> 9, minute |-> 3, second |-> 7],
    [year |-> 2025, month |-> 12, day |-> 31, hour |-> 23, minute |-> 59, second |-> 58] }

S_crlf == <<"\r","\n">>

\* line 129
fieldnames == << <<"i","d">>, <<"n","a","m","e">> >>

\* csv's QUOTE_MINIMAL: a field holding the delimiter, the quote character
\* or a character of the line terminator is quoted
NeedsQuote(field) ==
  \E k \in 1..Len(field) : field[k] \in {",", "\"", "\r", "\n"}

RECURSIVE DoubleQuote(_)
DoubleQuote(field) ==
  IF field = <<>> THEN <<>>
  ELSE (IF Head(field) = "\"" THEN <<"\"","\"">> ELSE <<Head(field)>>)
       \o DoubleQuote(Tail(field))

\* faulty variant: no field is quoted
CsvFieldRaw(field) == field

CsvField(field) ==
  IF NeedsQuote(field) THEN <<"\"">> \o DoubleQuote(field) \o <<"\"">>
  ELSE field

\* the text csv writes for a value: a string as it is, None as ""
CsvText(value) == IF value.t = "str" THEN value.v ELSE <<>>

\* DictWriter's row of an entity: its values in the order of fieldnames
DictToList(entity) == <<entity.id, CsvText(entity.name)>>

\* writer.writerow: the fields joined by the delimiter, then "\r\n"
CsvLine(fields) == CsvField(fields[1]) \o <<",">> \o CsvField(fields[2]) \o S_crlf

NoFile == [exists |-> FALSE, path |-> <<>>, content |-> <<>>]

\* open(output_file, 'w') creates the file, empty
Created(path) == [exists |-> TRUE, path |-> path, content |-> <<>>]

Written(file, text) == [file EXCEPT !.content = file.content \o text]

\* What a write of text that fails (or a failing close, with no text) may
\* leave in the file: the output is buffered, so nothing of it, all that was
\* written before, or that and a leading part of text.
FailedWrite(file, text) ==
  { [file EXCEPT !.content = SubSeq(file.content \o text, 1, n)] :
      n \in {0, Len(file.content), Len(file.content) + Len(text) \div 2} }

\* faulty variant: the except clause returns the path all the same
ExpFailReturnsPath(exc) ==
  /\ exp_exc' = exc
  /\ exp_result' = Some(output_file)
  /\ pc' = "exp_return"

\* return None from an except clause of export_to_csv (142-148); the with
\* statement has closed the file and nothing removes it
ExpFail(exc) ==
  /\ exp_exc' = exc
  /\ exp_result' = None
  /\ pc' = "exp_return"

\* faulty variant: no except clause in main, the exception leaves the program
MainNoExcept ==
  /\ outcome' = "raised"
  /\ exit_code' = 1
  /\ pc' = "done"

\* An exception leaves export_to_csv or get_shelly_devices uncaught: main's
\* except clause of line 212 reports it and main returns.
MainExcept ==
  /\ outcome' = "unexpected_error"
  /\ exit_code' = 0
  /\ pc' = "done"

\* faulty variant: the empty list is exported like any other
NeverNothingToExport(list) == FALSE

\* not entities (line 115)
NothingToExport(list) == list = <<>>

\* lines 115-125
ExpEnter ==
  /\ pc = "exp_enter"
  /\ IF NothingToExport(entities)
     THEN /\ exp_result' = None
          /\ pc' = "exp_return"
          /\ UNCHANGED <<output_file, outcome, exit_code>>
     ELSE /\ \E now \in Clock :
               output_file' = IF ~Truthy(output_arg) THEN GeneratedName(now)
                              ELSE output_arg.v
          /\ \E cwd_exists \in BOOLEAN :
               \* os.getcwd() of line 124 is outside the try statement
               IF cwd_exists
               THEN pc' = "exp_open" /\ UNCHANGED <<outcome, exit_code>>
               ELSE IF caller = "main" THEN MainExcept
               ELSE outcome' = "raised" /\ pc' = "done" /\ UNCHANGED exit_code
          /\ UNCHANGED exp_result
  /\ UNCHANGED <<main_inputs, gsd_locals, http_log, gsd_result, gsd_exc,
                 entities, output_arg, row, fs, opens, exp_exc, previews>>

\* line 128
ExpOpen ==
  /\ pc = "exp_open"
  /\ \E r \in {"ok", "PermissionError", "OSError"} :
       IF r = "ok"
       THEN /\ fs' = Created(output_file)
            /\ opens' = opens + 1
            /\ pc' = "exp_header"
            /\ UNCHANGED <<exp_result, exp_exc>>
       ELSE /\ ExpFail(IF r = "PermissionError" THEN r ELSE "Exception")
            /\ UNCHANGED <<fs, opens>>
  /\ UNCHANGED <<main_inputs, gsd_locals, http_log, gsd_result, gsd_exc,
                 entities, output_arg, output_file, row, previews, outcome,
                 exit_code>>

\* line 132
ExpHeader ==
  /\ pc = "exp_header"
  /\ \E ok \in BOOLEAN :
       IF ok
       THEN /\ fs' = Written(fs, CsvLine(fieldnames))
            /\ row' = 0
            /\ pc' = "exp_rows"
            /\ UNCHANGED <<exp_result, exp_exc>>
       ELSE /\ ExpFail("Exception")
            /\ fs' \in FailedWrite(fs, CsvLine(fieldnames))
            /\ UNCHANGED row
  /\ UNCHANGED <<main_inputs, gsd_locals, http_log, gsd_result, gsd_exc,
                 entities, output_arg, output_file, opens, previews, outcome,
                 exit_code>>

\* lines 133-134: one iteration of the for loop
ExpRow ==
  /\ pc = "exp_rows"
  /\ row < Len(entities)
  /\ \E ok \in BOOLEAN :
       IF ok
       THEN /\ fs' = Written(fs, CsvLine(DictToList(entities[row + 1])))
            /\ row' = row + 1
            /\ UNCHANGED <<pc, exp_result, exp_exc>>
       ELSE /\ ExpFail("Exception")
            /\ fs' \in FailedWrite(fs, CsvLine(DictToList(entities[row + 1])))
            /\ UNCHANGED row
  /\ UNCHANGED <<main_inputs, gsd_locals, http_log, gsd_result, gsd_exc,
                 entities, output_arg, output_file, opens, previews, outcome,
                 exit_code>>

\* lines 135-150: the with statement closes the file, the function returns
ExpClose ==
  /\ pc = "exp_rows"
  /\ row = Len(entities)
  /\ \E ok \in BOOLEAN :
       IF ok
       THEN /\ exp_result' = Some(output_file)
            /\ pc' = "exp_return"
            /\ UNCHANGED <<exp_exc, fs>>
       ELSE /\ ExpFail("Exception")
            /\ fs' \in FailedWrite(fs, <<>>)
  /\ UNCHANGED <<main_inputs, gsd_locals, http_log, gsd_result, gsd_exc,
                 entities, output_arg, output_file, row, opens, previews,
                 outcome, exit_code>>

\* the function's frame is dropped; main goes on at line 196
ExpReturn ==
  /\ pc = "exp_return"
  /\ output_file' = <<>>
  /\ row' = 0
  /\ IF caller = "main"
     THEN pc' = "main_summary" /\ UNCHANGED outcome
     ELSE pc' = "done" /\ outcome' = "returned"
  /\ UNCHANGED <<main_inputs, gsd_locals, http_log, gsd_result, gsd_exc,
                 entities, output_arg, fs, opens, exp_result, exp_exc, previews,
                 exit_code>>

\* ------------------------------------------------------------------ main

\* lines 164-165
MainResolve ==
  /\ pc = "main_resolve"
  /\ token' = PyOr(args.token, environ.HA_TOKEN)
  /\ ha_url' = PyOr(args.url, environ.HA_URL)
  /\ pc' = "main_check_url"
  /\ UNCHANGED <<caller, args, environ, gsd_locals, http_log, gsd_result,
                 gsd_exc, exp_state>>

\* sys.exit(1) after the diagnostic
Exit(diagnostic) ==
  /\ outcome' = diagnostic
  /\ exit_code' = 1
  /\ pc' = "exited"

\* lines 167-169
MainCheckUrl ==
  /\ pc = "main_check_url"
  /\ IF ~Truthy(ha_url) THEN Exit("url_missing")
     ELSE pc' = "main_check_token" /\ UNCHANGED <<outcome, exit_code>>
  /\ UNCHANGED <<main_inputs, gsd_locals, http_log, gsd_result, gsd_exc,
                 entities, output_arg, output_file, row, fs, opens,
                 exp_result, exp_exc, previews>>

\* lines 171-173
MainCheckToken ==
  /\ pc = "main_check_token"
  /\ IF ~Truthy(token) THEN Exit("token_missing")
     ELSE pc' = "main_fetch" /\ UNCHANGED <<outcome, exit_code>>
  /\ UNCHANGED <<main_inputs, gsd_locals, http_log, gsd_result, gsd_exc,
                 entities, output_arg, output_file, row, fs, opens,
                 exp_result, exp_exc, previews>>

NoArgs == [url |-> None, token |-> None]
NoEnv  == [HA_URL |-> None, HA_TOKEN |-> None]

\* lines 175-184: the banner, then the call of get_shelly_devices.  args.url,
\* args.token and the environment are read nowhere after line 165; the model
\* forgets them here.
MainFetch ==
  /\ pc = "main_fetch"
  /\ pc' = "gsd_enter"
  /\ args' = NoArgs
  /\ environ' = NoEnv
  /\ UNCHANGED <<caller, ha_url, token, gsd_locals, http_log, gsd_result,
                 gsd_exc, exp_state>>

\* not entities (line 186)
NothingFound(list) == list = <<>>

\* lines 186-194: args.output is read where export_to_csv is called
MainCheckEntities ==
  /\ pc = "main_check_entities"
  /\ IF NothingFound(entities)
     THEN /\ outcome' = "nothing_found"
          /\ exit_code' = 0
          /\ pc' = "done"
          /\ UNCHANGED output_arg
     ELSE /\ output_arg' \in {None, Some(<<>>), Some(OUT_PATH)}
          /\ pc' = "exp_enter"
          /\ UNCHANGED <<outcome, exit_code>>
  /\ UNCHANGED <<main_inputs, gsd_locals, http_log, gsd_result, gsd_exc,
                 entities, output_file, row, fs, opens, exp_result, exp_exc,
                 previews>>

\* lines 196-211
MainSummary ==
  /\ pc = "main_summary"
  /\ IF Truthy(exp_result)
     THEN \* the preview: open(output_file, 'r'), a failure is caught at 210
          /\ \E readable \in BOOLEAN : previews' = previews + 1
          /\ outcome' = "exported"
     ELSE /\ outcome' = "export_failed"
          /\ UNCHANGED previews
  /\ exit_code' = 0
  /\ pc' = "done"
  /\ UNCHANGED <<main_inputs, gsd_locals, http_log, gsd_result, gsd_exc,
                 entities, output_arg, output_file, row, fs, opens,
                 exp_result, exp_exc>>

\* ---------------------------------------------------------- specification

\* Longest DeviceEntry list export_to_csv is called with on its own.
MaxRows == 2

N_two_lines == <<"a","\n","b">>

\* The entries export_to_csv is called with on its own.
Entries ==
  { [id |-> Id_shelly_1, name |-> JStr(N_kitchen)],
    [id |-> Id_garage, name |-> JStr(N_garage)],
    [id |-> Id_shelly_1, name |-> JStr(N_quoted)],
    [id |-> Id_lamp, name |-> JStr(N_two_lines)] }

EntryLists == UNION { [1..n -> Entries] : n \in 0..MaxRows }

Optional(s) == {None, Some(<<>>), Some(s)}

InitCommon ==
  /\ ha_url = None
  /\ token = None
  /\ gsd_url = <<>>
  /\ headers = <<>>
  /\ requests = <<>>
  /\ responses = <<>>
  /\ all_entities = <<>>
  /\ idx = 0
  /\ shelly_devices = <<>>
  /\ seen_ids = {}
  /\ gsd_result = <<>>
  /\ gsd_exc = "none"
  /\ output_file = <<>>
  /\ row = 0
  /\ fs = NoFile
  /\ opens = 0
  /\ exp_result = None
  /\ exp_exc = "none"
  /\ previews = 0
  /\ outcome = "running"
  /\ exit_code = -1

\* python ha-shelly-export.py [--url U] [--token T], with HA_URL and HA_TOKEN
\* set or not
InitMain ==
  /\ InitCommon
  /\ caller = "main"
  /\ pc = "main_resolve"
  /\ args \in [url : Optional(U_FLAG), token : Optional(T_FLAG)]
  /\ environ \in [HA_URL : Optional(U_ENV), HA_TOKEN : Optional(T_ENV)]
  /\ entities = <<>>
  /\ output_arg = None

\* export_to_csv(entities, output_file) called on its own
InitExport ==
  /\ InitCommon
  /\ caller = "export_to_csv"
  /\ pc = "exp_enter"
  /\ args = NoArgs
  /\ environ = NoEnv
  /\ entities \in EntryLists
  /\ output_arg \in Optional(OUT_PATH)

Init == InitMain \/ InitExport

Next ==
  \/ MainResolve
  \/ MainCheckUrl
  \/ MainCheckToken
  \/ MainFetch
  \/ GsdEnter
  \/ ConfigRequest
  \/ StatesRequest
  \/ FilterStep
  \/ FilterDone
  \/ GsdReturn
  \/ MainCheckEntities
  \/ ExpEnter
  \/ ExpOpen
  \/ ExpHeader
  \/ ExpRow
  \/ ExpClose
  \/ ExpReturn
  \/ MainSummary

Spec == Init /\ [][Next]_vars

\* ================================================================ claims

\* ---- what the claims speak of, stated without the program's operators

\* s begins with p
HasPrefix(s, p) == Len(s) >= Len(p) /\ \A k \in 1..Len(p) : s[k] = p[k]

\* sub occurs in s when letter case is ignored (sub is lower case)
OccursIgnoringCase(s, sub) ==
  \E off \in 0..(Len(s) - Len(sub)) :
    \A k \in 1..Len(sub) :
      \/ s[off + k] = sub[k]
      \/ \E n \in 1..26 : UpperAlpha[n] = s[off + k] /\ LowerAlpha[n] = sub[k]

\* the selection rule of the claim
ClaimSelects(i) ==
  /\ \/ HasPrefix(i, S_cover_dot)
     \/ HasPrefix(i, S_switch_dot) /\ OccursIgnoringCase(i, S_shelly)
  /\ ~OccursIgnoringCase(i, S_availability)
  /\ ~OccursIgnoringCase(i, S_connectivity)

\* get_shelly_devices has filtered the whole array and is about to return
Filtered ==
  /\ pc = "gsd_return"
  /\ gsd_exc = "none"
  /\ Len(responses) = 2
  /\ responses[1].kind = "status" /\ responses[1].code = 200
  /\ responses[2].kind = "status" /\ responses[2].code = 200

\* the input records that carry identifier i
Occurrences(i) ==
  { j \in 1..Len(all_entities) :
      all_entities[j].t = "object" /\ all_entities[j].entity_id = JStr(i) }

InputIds ==
  { all_entities[j].entity_id.v : j \in 1..Len(all_entities) }

OutputIds == { gsd_result[k].id : k \in 1..Len(gsd_result) }

Min(S) == CHOOSE x \in S : \A y \in S : x <= y

\* C1: after both requests answered 200, the returned list holds an entry
\* with identifier i exactly when some input record has entity_id i and i is
\* selected: it starts with "cover.", or starts with "switch." and contains
\* "shelly" in any letter case, and contains neither "availability" nor
\* "connectivity" in any letter case.
C1_SelectionRule ==
  Filtered =>
    \A i \in InputIds \cup OutputIds :
      (i \in OutputIds) <=> (Occurrences(i) # {} /\ ClaimSelects(i))

\* a cover without the marker is returned, a switch without the marker and
\* an excluded cover with the marker are not
C1_Witness ==
  /\ Filtered
  /\ Id_garage \in OutputIds
  /\ Id_lamp \in InputIds /\ Id_lamp \notin OutputIds
  /\ Id_cover_conn \in InputIds /\ Id_cover_conn \notin OutputIds

\* C2: no identifier occurs twice in the returned list, and an entry's name
\* is that of the first input record with its identifier: the record's
\* friendly_name if it has one, the identifier otherwise.
C2_UniqueFirstName ==
  /\ pc = "gsd_return" =>
       \A a, b \in 1..Len(gsd_result) :
         a # b => gsd_result[a].id # gsd_result[b].id
  /\ Filtered =>
       \A k \in 1..Len(gsd_result) :
         LET i     == gsd_result[k].id
             first == all_entities[Min(Occurrences(i))]
         IN /\ Occurrences(i) # {}
            /\ gsd_result[k].name =
                 IF first.attributes.t = "object"
                    /\ first.attributes.friendly_name.t # "missing"
                 THEN first.attributes.friendly_name
                 ELSE JStr(i)

\* the same identifier came twice with different names, once returned
C2_Witness ==
  /\ Filtered
  /\ Len(gsd_result) = 1
  /\ \E j1, j2 \in Occurrences(gsd_result[1].id) :
       /\ j1 < j2
       /\ all_entities[j1].attributes # all_entities[j2].attributes

\* C3: the returned entries stand in the order of the first input occurrence
\* of their identifiers.
C3_InputOrder ==
  Filtered =>
    \A a, b \in 1..Len(gsd_result) :
      /\ Occurrences(gsd_result[a].id) # {}
      /\ (a < b) <=> (Min(Occurrences(gsd_result[a].id))
                        < Min(Occurrences(gsd_result[b].id)))

\* two entries returned, the first identifier occurring again after the second
C3_Witness ==
  /\ Filtered
  /\ Len(gsd_result) = 2
  /\ \E j \in Occurrences(gsd_result[1].id) :
       j > Min(Occurrences(gsd_result[2].id))

\* a request failed, a status was not 200, an except clause ran, or the
\* array that was iterated holds a malformed element
FetchFailed ==
  \/ gsd_exc # "none"
  \/ \E k \in 1..Len(responses) :
       responses[k].kind = "exc" \/ responses[k].code # 200
  \/ pc = "gsd_return" /\ \E j \in 1..Len(all_entities) : all_entities[j] \in Malformed

\* C4: on every failure (a status other than 200 or a network error on either
\* request, a body that is no JSON, a payload malformed at some element)
\* get_shelly_devices returns the empty list and raises nothing: the call
\* is over, nothing was exported and no exception reached the caller.
C4_FailureIsEmpty ==
  FetchFailed =>
    /\ gsd_result = <<>>
    /\ pc \notin {"config_request", "states_request", "filter"}
    /\ outcome \in {"running", "nothing_found"}
    /\ entities = <<>>

\* a malformed element met after an entry was accepted: nothing is returned
C4_Witness ==
  /\ pc = "gsd_return"
  /\ gsd_exc = "Exception"
  /\ shelly_devices # <<>>
  /\ gsd_result = <<>>

IsOk(response) == response.kind = "status" /\ response.code = 200

\* C5: the GET of /api/config is the first request and is issued once; the
\* GET of /api/states is issued at most once and only after /api/config
\* answered 200; the filter runs only after /api/states answered 200; when
\* /api/config fails, /api/states is never requested and the result is empty.
C5_RequestOrder ==
  /\ Len(requests) <= 2
  /\ Len(responses) = Len(requests)
  /\ Len(requests) >= 1 =>
       requests[1].url = StripSlash(ha_url.v) \o S_api_config
  /\ Len(requests) = 2 =>
       /\ requests[2].url = StripSlash(ha_url.v) \o S_api_states
       /\ IsOk(responses[1])
  /\ pc \in {"states_request", "filter", "gsd_return", "main_check_entities"} =>
       Len(requests) >= 1
  /\ (pc = "filter" \/ all_entities # <<>> \/ shelly_devices # <<>>
        \/ gsd_result # <<>>) =>
       Len(requests) = 2 /\ IsOk(responses[2])
  /\ (Len(responses) >= 1 /\ ~IsOk(responses[1])) =>
       /\ Len(requests) = 1
       /\ pc # "states_request"
       /\ gsd_result = <<>>

\* /api/config answered 401 and the run is over with one request issued
C5_Witness ==
  /\ pc = "done"
  /\ Len(requests) = 1
  /\ responses[1].kind = "status" /\ responses[1].code = 401
  /\ gsd_result = <<>>

\* ---- reading a CSV text back, as csv.reader does

Quotes(text, a, b) == { k \in a..b : text[k] = "\"" }

\* the quote that closes the quoted field opened at i: the first one that
\* is not half of a doubled quote (past the end when there is none)
ClosingQuote(text, i) ==
  LET closing == { j \in (i + 1)..Len(text) :
                     /\ text[j] = "\""
                     /\ Cardinality(Quotes(text, i + 1, j - 1)) % 2 = 0
                     /\ (j = Len(text) \/ text[j + 1] # "\"") }
  IN IF closing = {} THEN Len(text) + 1 ELSE Min(closing)

\* the delimiter or line end that ends the field running from position from
FieldEnd(text, from) ==
  LET ends == { j \in from..Len(text) : text[j] \in {",", "\r", "\n"} }
  IN IF ends = {} THEN Len(text) + 1 ELSE Min(ends)

\* the inside of a quoted field with every doubled quote read as one
Unescape(s) ==
  LET keep == { k \in 1..Len(s) :
                  s[k] # "\"" \/ Cardinality(Quotes(s, 1, k)) % 2 = 0 }
  IN [n \in 1..Cardinality(keep) |->
        s[CHOOSE k \in keep : Cardinality({m \in keep : m <= k}) = n]]

RECURSIVE ReadCsv(_, _, _, _)
ReadCsv(text, i, record, records) ==
  IF i > Len(text)
  THEN IF record = <<>> THEN records
       ELSE Append(records, Append(record, <<>>))
  ELSE
    LET quoted == text[i] = "\""
        close  == IF quoted THEN ClosingQuote(text, i) ELSE i - 1
        end    == FieldEnd(text, close + 1)
        value  == IF quoted
                  THEN Unescape(SubSeq(text, i + 1, close - 1))
                       \o SubSeq(text, close + 1, end - 1)
                  ELSE SubSeq(text, i, end - 1)
        next   == IF text[end] = "\r" /\ end < Len(text) /\ text[end + 1] = "\n"
                  THEN end + 2 ELSE end + 1
    IN IF end > Len(text) THEN Append(records, Append(record, value))
       ELSE IF text[end] = ","
       THEN ReadCsv(text, end + 1, Append(record, value), records)
       ELSE IF record = <<>> /\ end = i
       THEN \* an empty line reads as an empty row
            ReadCsv(text, next, <<>>, Append(records, <<>>))
       ELSE ReadCsv(text, next, <<>>, Append(records, Append(record, value)))

ReadBack(text) == ReadCsv(text, 1, <<>>, <<>>)

C_id   == <<"i","d">>
C_name == <<"n","a","m","e">>
C_shelly_devices_ ==
  <<"s","h","e","l","l","y","_","d","e","v","i","c","e","s","_">>
C_dot_csv == <<".","c","s","v">>

IsDigit(c) == \E n \in 0..9 : Digits[n + 1] = c

DigitValue(c) == CHOOSE n \in 0..9 : Digits[n + 1] = c

Number2(s, k) == 10 * DigitValue(s[k]) + DigitValue(s[k + 1])

\* path is shelly_devices_<YYYYMMDD_HHMMSS>.csv for a time of the clock
IsStampedName(path) ==
  LET n     == Len(C_shelly_devices_)
      stamp == SubSeq(path, n + 1, n + 15)
  IN /\ Len(path) = n + 15 + Len(C_dot_csv)
     /\ SubSeq(path, 1, n) = C_shelly_devices_
     /\ SubSeq(path, n + 16, Len(path)) = C_dot_csv
     /\ stamp[9] = "_"
     /\ \A k \in (1..15) \ {9} : IsDigit(stamp[k])
     /\ \E dt \in Clock :
          /\ dt.year = 100 * Number2(stamp, 1) + Number2(stamp, 3)
          /\ dt.month = Number2(stamp, 5)
          /\ dt.day = Number2(stamp, 7)
          /\ dt.hour = Number2(stamp, 10)
          /\ dt.minute = Number2(stamp, 12)
          /\ dt.second = Number2(stamp, 14)

\* a value was given: not None and not the empty string
Given(x) == x.some /\ x.v # <<>>

\* export_to_csv is about to return from a non-empty list with no except
\* clause run
WriteSucceeded ==
  /\ pc = "exp_return"
  /\ entities # <<>>
  /\ exp_exc = "none"

\* C6: after a successful write of a non-empty list the file at the resolved
\* path reads back as the row id,name followed by one row <id, name> per
\* entry in input order, and the call returns that path: the path given, or
\* shelly_devices_<YYYYMMDD_HHMMSS>.csv when none (or an empty one) is given.
C6_RoundTrip ==
  WriteSucceeded =>
    /\ exp_result.some
    /\ IF Given(output_arg) THEN exp_result.v = output_arg.v
       ELSE IsStampedName(exp_result.v)
    /\ fs.exists
    /\ fs.path = exp_result.v
    /\ ReadBack(fs.content) =
         <<(<<C_id, C_name>>)>>
         \o [k \in 1..Len(entities) |-> <<entities[k].id, entities[k].name.v>>]

\* two entries written under a generated name, one of them needing quotes
C6_Witness ==
  /\ WriteSucceeded
  /\ output_arg = None
  /\ Len(entities) = 2
  /\ entities[2].name.v = N_quoted

ExportPcs == {"exp_enter", "exp_open", "exp_header", "exp_rows", "exp_return"}

\* C7: with an empty list no file is opened for writing or created:
\* export_to_csv returns None at once, and main returns before it calls
\* export_to_csv.
C7_EmptyWritesNothing ==
  /\ entities = <<>> =>
       /\ opens = 0
       /\ ~fs.exists
       /\ pc \notin {"exp_open", "exp_header", "exp_rows"}
       /\ pc = "exp_return" => exp_result = None
  /\ (caller = "main" /\ pc \in ExportPcs \cup {"main_summary"}) => entities # <<>>
  /\ outcome = "nothing_found" =>
       entities = <<>> /\ opens = 0 /\ ~fs.exists /\ exp_result = None

\* export_to_csv called with the empty list has returned None
C7_Witness ==
  /\ caller = "export_to_csv"
  /\ pc = "exp_return"
  /\ entities = <<>>
  /\ exp_result = None
  /\ opens = 0

\* an except clause of export_to_csv ran
WriteFailed == pc = "exp_return" /\ exp_exc # "none"

IsPrefixOf(s, t) == Len(s) <= Len(t) /\ SubSeq(t, 1, Len(s)) = s

RECURSIVE AllLines(_, _)
AllLines(list, k) ==
  IF k > Len(list) THEN <<>>
  ELSE CsvLine(DictToList(list[k])) \o AllLines(list, k + 1)

\* C8 as stated: when writing fails the call returns None and no file made
\* by the call is at the output path.
C8_NoFileAfterFailure ==
  WriteFailed => (exp_result = None /\ ~fs.exists)

\* C8 amended: when writing fails the failure is caught and the call returns
\* None; when the open itself failed (for want of permission or otherwise)
\* there is no file; when the failure came after the open, the file stays at
\* the output path, empty or holding a leading part of the output.
C8_FailureReturnsNone ==
  WriteFailed =>
    /\ exp_result = None
    /\ outcome = "running"
    /\ exp_exc = "PermissionError" => opens = 0
    /\ opens = 0 => ~fs.exists
    /\ opens > 0 =>
         /\ fs.exists
         /\ fs.path = output_file
         /\ IsPrefixOf(fs.content, CsvLine(fieldnames) \o AllLines(entities, 1))

\* a write failed after the header and a row were written: the file is
\* there and holds them
C8_Witness ==
  /\ WriteFailed
  /\ fs.exists
  /\ row >= 1
  /\ Len(fs.content) > Len(CsvLine(fieldnames))

UrlResolves   == Given(args.url) \/ Given(environ.HA_URL)
TokenResolves == Given(args.token) \/ Given(environ.HA_TOKEN)

\* C9: when no URL or no token is given by flag or environment, main exits
\* with status 1 before any request or write, reporting the URL first; a run
\* goes on only when both resolve, and then the flag's value is used when one
\* is given (a non-empty one) and the environment's otherwise.
C9_ConfigResolution ==
  caller = "main" =>
    /\ pc \in {"main_check_url", "main_check_token", "main_fetch", "exited"} =>
         /\ ha_url = IF Given(args.url) THEN args.url ELSE environ.HA_URL
         /\ token = IF Given(args.token) THEN args.token ELSE environ.HA_TOKEN
    /\ pc = "exited" =>
         /\ exit_code = 1
         /\ requests = <<>> /\ opens = 0 /\ ~fs.exists
         /\ ~UrlResolves \/ ~TokenResolves
         /\ outcome = IF ~UrlResolves THEN "url_missing" ELSE "token_missing"
    /\ pc = "main_check_token" => UrlResolves
    /\ pc = "main_fetch" => UrlResolves /\ TokenResolves
    /\ (requests # <<>> \/ opens > 0) => (pc # "exited" /\ exit_code # 1)

\* neither URL nor token resolves: the run has exited on the URL
C9_Witness ==
  /\ caller = "main"
  /\ pc = "exited"
  /\ ~UrlResolves /\ ~TokenResolves
  /\ outcome = "url_missing"
  /\ exit_code = 1

\* main has passed the checks of lines 167-173
Resolved ==
  /\ caller = "main"
  /\ pc \notin {"main_resolve", "main_check_url", "main_check_token", "exited"}

\* the statements of a run of main, last first
PcOrder ==
  <<"done", "main_summary", "exp_return", "exp_rows", "exp_header", "exp_open",
    "exp_enter", "main_check_entities", "gsd_return", "filter",
    "states_request", "config_request", "gsd_enter", "main_fetch">>

PcRank(p) == CHOOSE n \in 1..Len(PcOrder) : PcOrder[n] = p

\* what is left to do: the statements ahead, and within a loop the
\* iterations ahead
Rank ==
  PcRank(pc) * (MaxLen + MaxRows + 2)
  + (IF pc = "filter" THEN Len(all_entities) + 1 - idx
     ELSE IF pc = "exp_rows" THEN Len(entities) - row
     ELSE 0)

\* the run can take a step; in the filter loop one of FilterStep and
\* FilterDone is enabled as soon as idx is a position of the loop
CanStep ==
  IF pc = "filter" THEN idx \in 1..(Len(all_entities) + 1) ELSE ENABLED Next

C10_Ends ==
  Resolved =>
    /\ exit_code \in {-1, 0}
    /\ Len(requests) <= 2 /\ opens <= 1 /\ previews <= 1
    /\ pc # "done" => (outcome = "running" /\ exit_code = -1 /\ CanStep)
    /\ pc = "done" =>
         /\ exit_code = 0
         /\ outcome \in {"nothing_found", "export_failed", "exported",
                         "unexpected_error"}
         /\ outcome = "nothing_found" => (gsd_result = <<>> /\ opens = 0)
         /\ outcome = "export_failed" => (gsd_result # <<>> /\ exp_result = None)
         /\ outcome = "exported" =>
              (exp_result.some /\ opens = 1 /\ fs.exists /\ previews = 1)
         /\ outcome = "unexpected_error" => (gsd_result # <<>> /\ opens = 0)

\* C10: once URL and token are resolved a run of main ends by returning: in
\* no state has an exception left main or a non-zero exit been raised, a run
\* that is not over can always take a step, every step brings the end
\* nearer, no request, write or preview is made twice, and the run ends as
\* exactly one of nothing found, export failed, export succeeded and
\* unexpected error.
C10_Terminates == [](C10_Ends) /\ [][Resolved => (Rank' < Rank /\ Rank' >= 0)]_vars

\* os.getcwd() failed in export_to_csv: main reported it and returned
C10_Witness ==
  /\ caller = "main"
  /\ pc = "done"
  /\ outcome = "unexpected_error"
  /\ exit_code = 0

====
